---- MODULE Spec2Model ----
(***************************************************************************)
(* Step-by-step scenario sessions of shayde: the SessionManager registry,  *)
(* the ManagedSession cursor and counters, the ScenarioSession result      *)
(* bookkeeping and the merge that save_results performs on results.json.   *)
(* Batch runs (run_all, run_single_step) follow run_step through the       *)
(* action interpreter, the account switch, the assertions and the          *)
(* screenshot.                                                             *)
(*                                                                         *)
(* A coroutine is cut at the places where it really suspends (a page       *)
(* driver call); everything between two suspensions is one atomic step,    *)
(* as on an asyncio event loop.                                            *)
(***************************************************************************)
EXTENDS Integers, Sequences, FiniteSets, TLC

VARIABLES
    scenario,      \* the parsed Scenario.steps: a sequence of Parts
    record_video,  \* the --video/--no-video choice the sessions are created with
    registry,      \* keys of SessionManager._sessions
    obj,           \* the ManagedSession objects ever created, by session id
    next_id,       \* number of sessions created so far (ids are fresh)
    calls,         \* the coroutines in flight, by slot
    nops,          \* number of sessions created and step calls admitted so far
    last,          \* the latest event: what a call returned or raised, or its suspension
    results_json,  \* content of results.json in the output directory
    runner,        \* the ScenarioRunner of a batch run: where run_all stands
    session,       \* the ScenarioSession of the batch run
    seen,          \* the calls the latest runner action made, as a caller observes them
    yaml,          \* the decoded YAML document given to the parse command
    validation     \* how far parse --validate got, and what it returned

vars == <<scenario, record_video, registry, obj, next_id, calls, nops, last, results_json,
          runner, session, seen, yaml, validation>>

MaxCalls == 3

None == "none"
NoFile == [exists |-> FALSE]
File(content) == [exists |-> TRUE, content |-> content]
Idle == [pc |-> "idle"]
Slots == {1, 2}
\* The ids a caller may name: the registered ones and one that is not in the
\* registry (the first ended session if there is one, else an id never given).
SessionIds ==
    registry \cup { CHOOSE i \in 1 .. next_id + 1 :
                       /\ i \notin registry
                       /\ \A j \in 1 .. i - 1 : j \in registry }

\* scenario.accounts: the declared account keys ("ghost" is used by a part
\* without being declared, which the parser only warns about)
Accounts == {"admin"}

\* A Part: its ordinal, its account key and the number of its items.
Part(n, acc, k) == [part |-> n, account |-> acc, items |-> k]

\* The scenarios the sessions are created from.
Scenarios ==
    { << Part(1, None, 2), Part(2, "admin", 1) >>,
      << Part(1, "admin", 1), Part(2, None, 1) >>,
      << Part(2, None, 1), Part(1, "ghost", 1) >>,
      << Part(1, None, 1), Part(2, None, 0) >> }

\* Step.id of the step at 0-based (part index, step index).
StepId(pi, si) == <<pi + 1, si + 1>>

-----------------------------------------------------------------------------
(* ManagedSession *)

NewManaged(from_part) ==
    [ current_part_index |-> from_part - 1,
      current_step_index |-> 0,
      status |-> "initialized",
      executed_steps |-> 0,
      passed_steps |-> 0,
      failed_steps |-> 0,
      skipped_steps |-> 0,
      \* the ScenarioSession it owns
      current_account |-> None,
      context |-> TRUE,
      cookies |-> None,           \* the account the cookies of the context are of
      record_video |-> record_video,
      proxy_manager |-> TRUE,     \* config.proxy.enabled: setup started the proxy
      video_path |-> None,        \* result.video_path
      result_status |-> "pending",
      result_parts |-> << >>,
      current_part_result |-> 0 ]

HasCurrentPart(m) == m.current_part_index < Len(scenario)

get_current_part(m) == scenario[m.current_part_index + 1]

HasCurrentStep(m) ==
    /\ HasCurrentPart(m)
    /\ m.current_step_index < get_current_part(m).items

get_total_steps ==
    LET RECURSIVE Sum(_)
        Sum(i) == IF i = 0 THEN 0 ELSE scenario[i].items + Sum(i - 1)
    IN Sum(Len(scenario))

-----------------------------------------------------------------------------
(* ScenarioSession result bookkeeping *)

start_part(m, part) ==
    [m EXCEPT !.result_parts =
                  Append(@, [part |-> part.part, status |-> "running", steps |-> << >>]),
              !.current_part_result = Len(m.result_parts) + 1]

\* A passed step makes the part passed whatever its status was.
record_step_result_PassedWins(m, result) ==
    IF m.current_part_result = 0 THEN m
    ELSE LET i == m.current_part_result IN
         [m EXCEPT !.result_parts[i] =
                       [@ EXCEPT !.steps = Append(@, result),
                                 !.status = IF result.status \in {"failed", "passed"}
                                            THEN result.status ELSE @]]

record_step_result(m, result) ==
    IF m.current_part_result = 0 THEN m
    ELSE LET i == m.current_part_result
             old == m.result_parts[i]
             st == IF result.status = "failed" THEN "failed"
                   ELSE IF result.status = "passed" /\ old.status # "failed"
                        THEN "passed"
                        ELSE old.status
         IN [m EXCEPT !.result_parts[i] =
                          [old EXCEPT !.steps = Append(@, result), !.status = st]]

finish_part(m) ==
    IF m.current_part_result = 0 THEN m
    ELSE [m EXCEPT !.result_parts[m.current_part_result].status =
                       IF @ = "running" THEN "passed" ELSE @,
                   !.current_part_result = 0]

\* Some recorded step of the PartResult has the status.
AnyStep(pr, st) == \E j \in DOMAIN pr.steps : pr.steps[j].status = st

AnyPart(parts, st) == \E i \in DOMAIN parts : parts[i].status = st

finish_scenario(m) ==
    [m EXCEPT !.result_status =
                  IF AnyPart(m.result_parts, "failed") THEN "failed"
                  ELSE IF AnyPart(m.result_parts, "passed") THEN "passed"
                  ELSE "skipped"]

\* Number of recorded steps of the parts with the given status.
CountSteps(parts, st) ==
    Cardinality({ ij \in UNION { { <<i, j>> : j \in DOMAIN parts[i].steps } :
                                 i \in DOMAIN parts } :
                  parts[ij[1]].steps[ij[2]].status = st })

TotalSteps(parts) ==
    Cardinality(UNION { { <<i, j>> : j \in DOMAIN parts[i].steps } : i \in DOMAIN parts })

Summary(parts) ==
    [ total_steps |-> TotalSteps(parts),
      passed |-> CountSteps(parts, "passed"),
      failed |-> CountSteps(parts, "failed"),
      skipped |-> CountSteps(parts, "skipped") ]

to_dict(m) ==
    [ status |-> m.result_status,
      video_path |-> m.video_path,
      parts |-> m.result_parts,
      summary |-> Summary(m.result_parts) ]

\* list.sort(key=part) is stable: p goes after every element whose key is <= its own.
InsertByPart(p, sorted) ==
    LET k == Cardinality({ i \in DOMAIN sorted : sorted[i].part <= p.part })
    IN SubSeq(sorted, 1, k) \o << p >> \o SubSeq(sorted, k + 1, Len(sorted))

RECURSIVE SortByPart(_)
SortByPart(s) ==
    IF s = << >> THEN << >>
    ELSE InsertByPart(s[Len(s)], SortByPart(SubSeq(s, 1, Len(s) - 1)))

MergedStatus(summary) ==
    IF summary.failed > 0 THEN "failed"
    ELSE IF summary.passed > 0 THEN "passed"
    ELSE "skipped"

\* Every existing part is dropped.
MergeParts_CurrentOnly(existing_parts, current_parts) == SortByPart(current_parts)

\* The sort left out.
MergeParts_NoSort(existing_parts, current_parts) ==
    LET nums == { current_parts[i].part : i \in DOMAIN current_parts }
    IN SelectSeq(existing_parts, LAMBDA p : p.part \notin nums) \o current_parts

MergeParts(existing_parts, current_parts) ==
    LET nums == { current_parts[i].part : i \in DOMAIN current_parts }
        kept == SelectSeq(existing_parts, LAMBDA p : p.part \notin nums)
    IN SortByPart(kept \o current_parts)

\* The content save_results writes, given the results.json it finds.
save_results(m, file) ==
    LET current == to_dict(m) IN
    IF ~file.exists THEN current
    ELSE LET merged == MergeParts(file.content.parts, current.parts)
             summary == Summary(merged)
         IN [ status |-> MergedStatus(summary),
              video_path |-> current.video_path,
              parts |-> merged,
              summary |-> summary ]

\* The results.json an earlier run of part number i of the scenario leaves in
\* the output directory: the part is opened, each of its steps is recorded
\* with status st, the part and the scenario are finished, the result is saved.
RECURSIVE RecordSteps(_, _, _, _)
RecordSteps(m, pi, k, st) ==
    IF k = 0 THEN m
    ELSE record_step_result(RecordSteps(m, pi, k - 1, st),
                            [step_id |-> StepId(pi, k - 1), status |-> st])

PriorFile(i, st) ==
    LET part == scenario[i]
        m == RecordSteps(start_part(NewManaged(i), part), i - 1, part.items, st)
    IN File(save_results(finish_scenario(finish_part(m)), NoFile))

PriorFiles ==
    {NoFile} \cup { PriorFile(i, st) : i \in { j \in DOMAIN scenario : scenario[j].items > 0 },
                                     st \in {"passed", "failed"} }

-----------------------------------------------------------------------------
(* SessionManager.execute_next_step *)

\* A step call that gets past the checks of execute_next_step (MaxCalls
\* bounds how many of them, and creations of sessions, the model follows).
Admitted(sid) ==
    /\ sid \in registry
    /\ obj[sid].status # "completed"
    /\ HasCurrentStep(obj[sid])

\* An unknown id falls back on some registered session.
sessions_get_Fallback(sid) ==
    IF sid \in registry THEN sid
    ELSE IF registry # {} THEN CHOOSE s \in registry : TRUE
    ELSE 0

\* cls._sessions.get(session_id): the id found, 0 for None
sessions_get(sid) == IF sid \in registry THEN sid ELSE 0

\* The check left out.
IsCompleted_Never(m) == FALSE

\* managed.status == "completed"
IsCompleted(m) == m.status = "completed"

\* The comparison written with > for >=.
PartDone_OffByOne(m, part) == m.current_step_index + 1 > part.items

\* "Check if part is complete", after the step index was incremented
PartDone(m, part) == m.current_step_index + 1 >= part.items

\* Every part change is reported as an account change.
AccountChange_Always(next_part, part) == TRUE

\* "if next_part.account != part.account"
AccountChange(next_part, part) == next_part.account # part.account

\* "Determine next step" without retry: the cursor moves on; the hints of the
\* returned StepExecutionResult.  part_index and step_index locate the call's
\* local part and step, read when the call began.  A next_part of None is
\* written 0, a next_step of None << >>.
Proceed(m, part_index, step_index) ==
    LET part == scenario[part_index + 1] IN
    IF PartDone(m, part)
    THEN LET pi == m.current_part_index + 1
             m1 == [finish_part(m) EXCEPT !.current_step_index = 0,
                                          !.current_part_index = pi]
         IN IF pi >= Len(scenario)
            THEN [ m |-> [m1 EXCEPT !.status = "completed"],
                   is_completed |-> TRUE, is_part_change |-> TRUE,
                   is_account_change |-> FALSE,
                   next_part |-> 0, next_step |-> << >> ]
            ELSE [ m |-> [m1 EXCEPT !.status = "paused"],
                   is_completed |-> FALSE, is_part_change |-> TRUE,
                   is_account_change |-> AccountChange(scenario[pi + 1], part),
                   next_part |-> pi + 1,
                   next_step |-> IF scenario[pi + 1].items > 0
                                 THEN StepId(pi, 0) ELSE << >> ]
    ELSE [ m |-> [m EXCEPT !.current_step_index = @ + 1, !.status = "paused"],
           is_completed |-> FALSE, is_part_change |-> FALSE,
           is_account_change |-> FALSE,
           next_part |-> m.current_part_index + 1,
           next_step |-> StepId(part_index, m.current_step_index + 1) ]

\* The retry flag ignored.
Retry_Ignored(m, part_index, step_index) == Proceed(m, part_index, step_index)

\* "Retry - keep same position"
Retry(m, part_index, step_index) ==
    [ m |-> [m EXCEPT !.status = "paused"],
      is_completed |-> FALSE, is_part_change |-> FALSE,
      is_account_change |-> FALSE,
      next_part |-> m.current_part_index + 1,
      next_step |-> StepId(part_index, step_index) ]

Advance(m, part_index, step_index, retry) ==
    IF retry THEN Retry(m, part_index, step_index)
    ELSE Proceed(m, part_index, step_index)

\* A ManagedSession that is in the registry or held by a coroutine other than
\* the one in slot c stays on the heap; any other is garbage.
Gone == [status |-> "collected"]

\* The cursor kept in one place for all sessions: every live session gets
\* the step index that the call wrote.
Store_SharedCursor(c, sid, m) ==
    [ s \in DOMAIN obj |->
        IF s = sid
        THEN IF sid \in registry' \/ \E d \in Slots \ {c} : calls[d] # Idle /\ calls[d].sid = sid
             THEN m ELSE Gone
        ELSE IF obj[s] = Gone THEN Gone
        ELSE [obj[s] EXCEPT !.current_step_index = m.current_step_index] ]

Store(c, sid, m) ==
    [obj EXCEPT ![sid] =
        IF sid \in registry' \/ \E d \in Slots \ {c} : calls[d] # Idle /\ calls[d].sid = sid
        THEN m ELSE Gone]

\* The coroutine in slot c is left suspended in a driver call.
Suspend(c, call, m) ==
    /\ obj' = [obj EXCEPT ![call.sid] = m]
    /\ calls' = [calls EXCEPT ![c] = call]
    /\ last' = [op |-> call.op, sid |-> call.sid, outcome |-> "suspended"]

\* The call in slot c raises to its caller.
Raise(c, op, sid, what) ==
    /\ calls' = [calls EXCEPT ![c] = Idle]
    /\ last' = [op |-> op, sid |-> sid, outcome |-> what]

\* The call returns its StepExecutionResult.
Finish(c, call, m, status) ==
    LET adv == Advance(m, call.part_index, call.step_index, call.retry) IN
    /\ obj' = Store(c, call.sid, adv.m)
    /\ calls' = [calls EXCEPT ![c] = Idle]
    /\ last' = [ op |-> "step", sid |-> call.sid, outcome |-> "ok",
                 retry |-> call.retry, skip |-> call.skip,
                 step_id |-> StepId(call.part_index, call.step_index),
                 part_num |-> scenario[call.part_index + 1].part,
                 result |-> status,
                 is_completed |-> adv.is_completed,
                 is_part_change |-> adv.is_part_change,
                 is_account_change |-> adv.is_account_change,
                 next_part |-> adv.next_part,
                 next_step |-> adv.next_step,
                 driver |-> call.driver ]

\* "Execute step": a skipped StepResult is synthesized on the spot; otherwise
\* the runner drives the page (get_page sets the session up again if its page
\* is gone) and the coroutine is suspended in run_step.
Execute(c, call, m) ==
    IF call.skip
    THEN Finish(c, call,
                [record_step_result(m, [step_id |-> StepId(call.part_index, call.step_index),
                                        status |-> "skipped"])
                    EXCEPT !.skipped_steps = @ + 1],
                "skipped")
    ELSE Suspend(c, [call EXCEPT !.pc = "run_step", !.driver = TRUE],
                 [m EXCEPT !.context = TRUE])

\* switch_account after the logout: the login of account_key.
Login(c, call, m, account_key) ==
    IF account_key = None THEN Execute(c, call, m)
    ELSE IF account_key \notin Accounts THEN Execute(c, call, m)
    ELSE IF ~m.context THEN Execute(c, call, m)
    ELSE Suspend(c, [call EXCEPT !.pc = "login", !.driver = TRUE], m)

\* ScenarioSession.switch_account up to its first driver call.
switch_account(c, call, m, account_key) ==
    IF account_key = m.current_account THEN Execute(c, call, m)
    ELSE IF m.current_account # None
         THEN IF m.context
              THEN Suspend(c, [call EXCEPT !.pc = "clear_cookies", !.driver = TRUE], m)
              ELSE Login(c, call, [m EXCEPT !.current_account = None], account_key)
         ELSE Login(c, call, m, account_key)

StepBegin(c, sid, retry, skip) ==
    /\ calls[c] = Idle
    /\ Admitted(sid) => nops < MaxCalls
    /\ nops' = IF Admitted(sid) THEN nops + 1 ELSE nops
    /\ UNCHANGED <<yaml, validation, scenario, record_video, registry, next_id, results_json,
                   runner, session, seen>>
    /\ LET found == sessions_get(sid)
       IN IF found = 0
          THEN obj' = obj /\ Raise(c, "step", sid, "not_found")
          ELSE LET m == obj[found] IN
               IF IsCompleted(m)
               THEN obj' = obj /\ Raise(c, "step", sid, "completed")
               ELSE LET m1 == [m EXCEPT !.status = "running"] IN
                    IF ~HasCurrentStep(m1)
                    THEN /\ obj' = [obj EXCEPT ![found] = m1]
                         /\ Raise(c, "step", sid, "no_more")
                    ELSE LET part == get_current_part(m1)
                             m2 == IF m1.current_step_index = 0
                                   THEN start_part(m1, part) ELSE m1
                             call == [ pc |-> "begin", op |-> "step",
                                       sid |-> found, retry |-> retry, skip |-> skip,
                                       part_index |-> m1.current_part_index,
                                       step_index |-> m1.current_step_index,
                                       driver |-> FALSE ]
                         IN IF part.account # m2.current_account
                            THEN switch_account(c, call, m2, part.account)
                            ELSE Execute(c, call, m2)

\* context.clear_cookies() returned: the logout is done, the login follows.
ClearCookiesDone(c) ==
    /\ calls[c].pc = "clear_cookies"
    /\ UNCHANGED <<yaml, validation, scenario, record_video, registry, next_id, nops, results_json,
                   runner, session, seen>>
    /\ LET call == calls[c]
           m == obj[call.sid]
       IN Login(c, call, [m EXCEPT !.current_account = None, !.cookies = None],
                scenario[call.part_index + 1].account)

\* The login protocol ended: ok iff the page left /login without a fault.
LoginDone(c, ok) ==
    /\ calls[c].pc = "login"
    /\ UNCHANGED <<yaml, validation, scenario, record_video, registry, next_id, nops, results_json,
                   runner, session, seen>>
    /\ LET call == calls[c]
           m == obj[call.sid]
       IN Execute(c, call,
                  IF ok THEN [m EXCEPT !.current_account =
                                           scenario[call.part_index + 1].account,
                                       !.cookies = scenario[call.part_index + 1].account]
                  ELSE m)

\* Every executed step is counted as passed.
count_step_AllPassed(m, status) ==
    [m EXCEPT !.executed_steps = @ + 1, !.passed_steps = @ + 1]

\* The counters after run_step returned a StepResult of the status
count_step(m, status) ==
    [m EXCEPT !.executed_steps = @ + 1,
              !.passed_steps = IF status = "passed" THEN @ + 1 ELSE @,
              !.failed_steps = IF status = "failed" THEN @ + 1 ELSE @]

\* runner.run_step returned its StepResult.
RunStepDone(c, status) ==
    /\ calls[c].pc = "run_step"
    /\ UNCHANGED <<yaml, validation, scenario, record_video, registry, next_id, nops, results_json,
                   runner, session, seen>>
    /\ LET call == calls[c]
           m == obj[call.sid]
           m1 == record_step_result(m, [step_id |-> StepId(call.part_index, call.step_index),
                                        status |-> status])
           m2 == count_step(m1, status)
       IN Finish(c, call, m2, status)

-----------------------------------------------------------------------------
(* SessionManager.create and SessionManager.end *)

Create(from_part) ==
    /\ nops < MaxCalls
    /\ nops' = nops + 1
    /\ next_id' = next_id + 1
    /\ obj' = obj @@ ((next_id + 1) :> NewManaged(from_part))
    /\ registry' = registry \cup {next_id + 1}
    /\ last' = [op |-> "create", sid |-> next_id + 1, outcome |-> "ok"]
    /\ UNCHANGED <<yaml, validation, scenario, record_video, calls, results_json,
                   runner, session, seen>>

\* get written for pop: the entry stays.
sessions_pop_Keeps(sid) == registry

\* cls._sessions.pop(session_id, None): what is left in the registry
sessions_pop(sid) == registry \ {sid}

\* SessionManager.get_session: the session found, 0 for None
get_session(sid) == IF sid \in registry THEN sid ELSE 0

\* SessionManager.list_sessions: the ids of the sessions listed
list_sessions == registry

\* "Determine final status"
final_status(m) ==
    IF m.failed_steps > 0 THEN "failed"
    ELSE IF m.executed_steps = get_total_steps THEN "passed"
    ELSE "partial"

\* A call the session makes on its context, its page's video or its proxy.
SessionCall(call, outcome) ==
    [by |-> "session", call |-> call, outcome |-> outcome]

\* How the world treats a teardown: context.close() returns or faults; the
\* save of the video returns, times out after 60 s, or faults.
TeardownFates ==
    { [close |-> c, save |-> s] : c \in {"ok", "fault"}, s \in {"ok", "timeout", "fault"} }

\* A timeout or fault of the save leaves teardown as an error.
save_video_Propagates(m, outcome) ==
    [ m |-> IF outcome = "ok" THEN [m EXCEPT !.video_path = "saved"] ELSE m,
      raised |-> outcome # "ok" ]

\* "Save video after context is closed": asyncio.wait_for(video.save_as(...)),
\* a timeout or another exception is logged
save_video(m, outcome) ==
    [ m |-> IF outcome = "ok" THEN [m EXCEPT !.video_path = "saved"] ELSE m,
      raised |-> FALSE ]

\* ScenarioSession.teardown run to its end (page is set whenever context is).
teardown(m, fate) ==
    LET video == m.context /\ m.record_video
        handle == IF video THEN << SessionCall("page.video", "ok") >> ELSE << >>
        close == IF m.context THEN << SessionCall("context.close", fate.close) >>
                 ELSE << >>
    IN IF m.context /\ fate.close = "fault"
       THEN [m |-> m, trace |-> handle \o close, raised |-> TRUE]
       ELSE LET m1 == [m EXCEPT !.context = FALSE]
                saved == IF video THEN save_video(m1, fate.save)
                         ELSE [m |-> m1, raised |-> FALSE]
                save == IF video THEN << SessionCall("video.save_as", fate.save) >>
                        ELSE << >>
            IN IF saved.raised
               THEN [m |-> saved.m, trace |-> handle \o close \o save, raised |-> TRUE]
               ELSE [ m |-> [saved.m EXCEPT !.proxy_manager = FALSE],
                      trace |-> handle \o close \o save
                                \o (IF saved.m.proxy_manager
                                    THEN << SessionCall("proxy.stop", "ok") >> ELSE << >>),
                      raised |-> FALSE ]

\* end did not call teardown.
NoTeardown == [ran |-> FALSE, trace |-> << >>, raised |-> FALSE]

\* end returns its SessionEndResult.
EndReturn(c, call, m) ==
    /\ obj' = Store(c, call.sid, m)
    /\ calls' = [calls EXCEPT ![c] = Idle]
    /\ last' = [ op |-> "end", sid |-> call.sid, outcome |-> "ok",
                 existing |-> call.existing, current |-> call.current,
                 status |-> final_status(m),
                 total_steps |-> get_total_steps,
                 passed |-> m.passed_steps,
                 failed |-> m.failed_steps,
                 skipped |-> m.skipped_steps,
                 \* what end left of the ScenarioSession, and its teardown call
                 context |-> m.context,
                 proxy_manager |-> m.proxy_manager,
                 video_path |-> m.video_path,
                 teardown |-> call.teardown ]

\* end up to the teardown; io_error: writing results.json raises.
EndBegin(c, sid, io_error) ==
    /\ calls[c] = Idle
    /\ UNCHANGED <<yaml, validation, scenario, record_video, next_id, nops,
                   runner, session, seen>>
    /\ registry' = sessions_pop(sid)
    /\ IF sid \notin registry
       THEN /\ obj' = obj
            /\ results_json' = results_json
            /\ Raise(c, "end", sid, "not_found")
       ELSE LET m == obj[sid]
                m1 == IF m.status # "completed" THEN finish_scenario(m) ELSE m
                \* existing, current: the results.json found and the dict saved
                call == [ pc |-> "teardown", op |-> "end", sid |-> sid,
                          existing |-> results_json, current |-> to_dict(m1),
                          teardown |-> NoTeardown ]
            IN IF io_error
               THEN /\ obj' = Store(c, sid, m1)
                    /\ results_json' = results_json
                    /\ Raise(c, "end", sid, "io_error")
               ELSE /\ results_json' = File(save_results(m1, results_json))
                    /\ IF m1.record_video /\ m1.context
                       THEN Suspend(c, call, m1)
                       ELSE EndReturn(c, call, m1)

\* session.teardown() ended; an exception that leaves it is logged by end.
TeardownDone(c, fate) ==
    /\ calls[c].pc = "teardown"
    /\ UNCHANGED <<yaml, validation, scenario, record_video, registry, next_id, nops, results_json,
                   runner, session, seen>>
    /\ LET call == calls[c]
           m == obj[call.sid]
           td == teardown(m, fate)
       IN EndReturn(c, [call EXCEPT !.teardown = [ran |-> TRUE, trace |-> td.trace,
                                                  raised |-> td.raised]],
                    td.m)

-----------------------------------------------------------------------------
(* SessionManager.cleanup_all *)

\* list(cls._sessions.keys()): the registered ids in the order of creation
RECURSIVE KeysFrom(_)
KeysFrom(i) ==
    IF i > next_id THEN << >>
    ELSE (IF i \in registry THEN << i >> ELSE << >>) \o KeysFrom(i + 1)

\* The first error ends the loop and leaves cleanup_all.
CaughtInLoop_Never(raised) == FALSE

\* "except Exception as e": an error of end is logged and the loop goes on
CaughtInLoop(raised) == raised

\* cleanup_all takes the list of the ids.  No other call is made until it
\* has returned.
CleanupBegin(c) ==
    /\ calls[c] = Idle
    /\ calls' = [calls EXCEPT ![c] = [ pc |-> "cleanup", op |-> "cleanup", sid |-> 0,
                                       session_ids |-> KeysFrom(1), ended |-> << >> ]]
    /\ last' = [op |-> "cleanup", sid |-> 0, outcome |-> "listed"]
    /\ UNCHANGED <<yaml, validation, scenario, record_video, registry, obj, next_id, nops,
                   results_json, runner, session, seen>>

\* One turn of the loop: end(session_id) run to its end.  io_error: writing
\* results.json raises.  An error of the teardown of a recording session is
\* caught inside end, and the session is collected whatever it did.
CleanupEnd(c, io_error) ==
    /\ calls[c].pc = "cleanup"
    /\ Len(calls[c].ended) < Len(calls[c].session_ids)
    /\ LET call == calls[c]
           sid == call.session_ids[Len(call.ended) + 1]
           found == sid \in registry
           raised == ~found \/ io_error
           m == obj[sid]
           m1 == IF m.status # "completed" THEN finish_scenario(m) ELSE m
           goes_on == ~raised \/ CaughtInLoop(raised)
       IN /\ registry' = sessions_pop(sid)
          /\ results_json' = IF raised THEN results_json
                             ELSE File(save_results(m1, results_json))
          /\ obj' = IF found THEN [obj EXCEPT ![sid] = Gone] ELSE obj
          /\ calls' = [calls EXCEPT ![c] =
                          IF goes_on
                          THEN [call EXCEPT !.ended = Append(@, [sid |-> sid, raised |-> raised])]
                          ELSE Idle]
          /\ last' = [ op |-> "cleanup", sid |-> sid,
                       outcome |-> IF ~goes_on THEN "raised"
                                   ELSE IF raised THEN "logged" ELSE "ended",
                       session_ids |-> call.session_ids,
                       teardown |-> ~raised /\ m1.record_video /\ m1.context ]
    /\ UNCHANGED <<yaml, validation, scenario, record_video, next_id, nops,
                   runner, session, seen>>

\* The loop is over: cleanup_all returns.
CleanupReturn(c) ==
    /\ calls[c].pc = "cleanup"
    /\ Len(calls[c].ended) = Len(calls[c].session_ids)
    /\ calls' = [calls EXCEPT ![c] = Idle]
    /\ last' = [ op |-> "cleanup", sid |-> 0, outcome |-> "ok",
                 session_ids |-> calls[c].session_ids, ended |-> calls[c].ended ]
    /\ UNCHANGED <<yaml, validation, scenario, record_video, registry, obj, next_id, nops,
                   results_json, runner, session, seen>>

-----------------------------------------------------------------------------
(* ActionExecutor: the action interpreter *)

MaxActions == 2

\* The action specs of the steps: a goto (one driver call that may fault), a
\* login marker for an account key, and a spec with no known action key.
\* A spec of kind "select" is a select entry without its selector field, one
\* of kind "logout" is the logout action.
ActionSpec(kind, account) == [kind |-> kind, account |-> account]
ActionSpecs ==
    { ActionSpec("goto", None), ActionSpec("login", "admin"), ActionSpec("unknown", None) }

\* Step.action: absent, a single spec (a dict) or a list of specs.
NoAction == [form |-> "none", specs |-> << >>]
SingleAction(a) == [form |-> "single", specs |-> << a >>]
ActionList(as) == [form |-> "list", specs |-> as]

\* One call in the trace of a step: who made it, what it was, how it ended
\* and, for a read of page.url, the URL read.
DriverCall(by, call, outcome) ==
    [by |-> by, call |-> call, outcome |-> outcome, url |-> << >>]
UrlRead(url) == [by |-> "session", call |-> "read_url", outcome |-> "ok", url |-> url]

\* ActionResult; account and results are the entries of data (None, << >>
\* when data has no such key), calls the driver calls made on the way.
ActionResult(success, action_type, error_index, account, results, driver_calls) ==
    [ success |-> success, action_type |-> action_type, error_index |-> error_index,
      account |-> account, results |-> results, calls |-> driver_calls,
      raised |-> FALSE ]

\* The interpreter is left by a KeyError: its caller gets no ActionResult.
KeyError(action_type) ==
    [ success |-> FALSE, action_type |-> action_type, error_index |-> 0,
      account |-> None, results |-> << >>, calls |-> << >>, raised |-> TRUE ]

\* What the actions of a step leave in the session: a logout that went well
\* has cleared the cookies of page.context, the context of the session.
logout_effect(s, action_result) ==
    IF \E i \in DOMAIN action_result.calls :
           /\ action_result.calls[i].call = "clear_cookies"
           /\ action_result.calls[i].outcome = "ok"
    THEN [s EXCEPT !.cookies = None]
    ELSE s

\* ActionExecutor.logout
logout(outcome) ==
    ActionResult(outcome = "ok", "logout", 0, None, << >>,
                 << DriverCall("interpreter", "clear_cookies", outcome) >>)

\* _execute_single: outcome is how the driver call of the action ends.
execute_single(action, outcome) ==
    IF action.kind = "goto"
    THEN ActionResult(outcome = "ok", "goto", 0, None, << >>,
                      << DriverCall("interpreter", "goto", outcome) >>)
    ELSE IF action.kind = "login"
    THEN ActionResult(TRUE, "login", 0, action.account, << >>, << >>)
    ELSE IF action.kind = "select"
    THEN KeyError("select")   \* select_data["selector"]
    ELSE IF action.kind = "logout"
    THEN logout(outcome)
    ELSE ActionResult(FALSE, "unknown", 0, None, << >>, << >>)

\* The driver calls of a list of ActionResults, in order.
RECURSIVE CallsOf(_)
CallsOf(results) ==
    IF results = << >> THEN << >>
    ELSE CallsOf(SubSeq(results, 1, Len(results) - 1)) \o results[Len(results)].calls

\* Every action of the list is run; the first failure is named afterwards.
RECURSIVE RunEvery(_, _, _)
RunEvery(actions, outcomes, i) ==
    IF i > Len(actions) THEN << >>
    ELSE << execute_single(actions[i], outcomes[i]) >> \o RunEvery(actions, outcomes, i + 1)

execute_multi_RunsEvery(actions, outcomes) ==
    LET results == RunEvery(actions, outcomes, 1)
        bad == { i \in DOMAIN results : ~results[i].success }
    IN IF bad = {} THEN ActionResult(TRUE, "multi", 0, None, results, CallsOf(results))
       ELSE ActionResult(FALSE, "multi", CHOOSE i \in bad : \A j \in bad : i <= j,
                         None, results, CallsOf(results))

\* The loop of _execute_multi from action i (1-based) on.
RECURSIVE MultiFrom(_, _, _, _)
MultiFrom(actions, outcomes, i, results) ==
    IF i > Len(actions)
    THEN ActionResult(TRUE, "multi", 0, None, results, CallsOf(results))
    ELSE LET result == execute_single(actions[i], outcomes[i])
             so_far == Append(results, result)
         IN IF result.raised
            THEN [result EXCEPT !.calls = CallsOf(so_far)]
            ELSE IF ~result.success
            THEN ActionResult(FALSE, "multi", i, None, so_far, CallsOf(so_far))
            ELSE MultiFrom(actions, outcomes, i + 1, so_far)

\* _execute_multi
execute_multi(actions, outcomes) == MultiFrom(actions, outcomes, 1, << >>)

\* ActionExecutor.execute
execute(action, outcomes) ==
    IF action.form = "none" THEN ActionResult(TRUE, "none", 0, None, << >>, << >>)
    ELSE IF action.form = "list" THEN execute_multi(action.specs, outcomes)
    ELSE execute_single(action.specs[1], outcomes[1])

-----------------------------------------------------------------------------
(* ScenarioSession.switch_account and ScenarioRunner.run_step, start to end *)

\* page.url as its path segments.
Urls == { << "login" >>, << "dashboard" >>, << "account", "login" >> }

\* "/login" in self.page.url
ContainsLogin(url) == \E i \in DOMAIN url : url[i] = "login"

\* How the login protocol can end: a driver call raises, or the page settles
\* on some URL.
LoginFates == { [fault |-> TRUE, url |-> << "login" >>] }
              \cup { [fault |-> FALSE, url |-> u] : u \in Urls }

\* A login counts as done whatever page it ends on.
LoggedIn_Always(fate) == TRUE

\* The outcome test of the login protocol
LoggedIn(fate) == ~fate.fault /\ ~ContainsLogin(fate.url)

\* The same-account test never holds.
AlreadyOn_Never(s, account_key) == FALSE

\* account_key == self.current_account
AlreadyOn(s, account_key) == account_key = s.current_account

\* switch_account run to its end on session s: the session it leaves, the
\* value it returns and the driver calls it made.
SwitchAccount(s, account_key, fate) ==
    IF AlreadyOn(s, account_key) THEN [s |-> s, ret |-> TRUE, calls |-> << >>]
    ELSE LET logged_in == s.current_account # None
             logout_calls == IF logged_in /\ s.context
                             THEN << DriverCall("session", "clear_cookies", "ok") >>
                             ELSE << >>
             s1 == IF logged_in
                   THEN [s EXCEPT !.current_account = None,
                                  !.cookies = IF s.context THEN None ELSE @]
                   ELSE s
         IN IF account_key = None THEN [s |-> s1, ret |-> TRUE, calls |-> logout_calls]
            ELSE IF account_key \notin Accounts
            THEN [s |-> s1, ret |-> FALSE, calls |-> logout_calls]
            ELSE IF fate.fault
            THEN [s |-> s1, ret |-> FALSE,
                  calls |-> Append(logout_calls, DriverCall("session", "goto_login", "fault"))]
            ELSE LET protocol == << DriverCall("session", "goto_login", "ok"),
                                    DriverCall("session", "submit", "ok"),
                                    UrlRead(fate.url) >>
                 IN IF LoggedIn(fate)
                    THEN [s |-> [s1 EXCEPT !.current_account = account_key,
                                           !.cookies = account_key],
                          ret |-> TRUE, calls |-> logout_calls \o protocol]
                    ELSE [s |-> s1, ret |-> FALSE, calls |-> logout_calls \o protocol]

\* What a caller of switch_account can observe of one call.
SwitchSeen(account_key, s, sw) ==
    [ key |-> account_key, before |-> s.current_account,
      after |-> sw.s.current_account, ret |-> sw.ret, calls |-> sw.calls ]

\* A Step: its action, whether it has an expect, whether it asks for a screenshot.
Step(action, expect, screenshot) ==
    [action |-> action, expect |-> expect, screenshot |-> screenshot]

\* What the world does to one run_step call: how the driver call of each
\* action ends, how a login ends, whether the assertions are met, whether the
\* screenshot raises.
StepFate(actions, login, expect, screenshot) ==
    [actions |-> actions, login |-> login, expect |-> expect, screenshot |-> screenshot]

\* action_result.data.get("account"): the deferred login request, if any
LoginRequest(action_result) == action_result.account

\* expect is evaluated whatever the action did.
ShouldVerify_Always(step, status) == step.expect

\* "if step.expect and result.status != StepStatus.FAILED"
ShouldVerify(step, status) == step.expect /\ status # "failed"

\* "if step.has_screenshot and result.status != StepStatus.FAILED"
ShouldShoot(step, status) == step.screenshot /\ status # "failed"

\* run_step run to its end on session s for the step with id step_id.
run_step(s, step_id, step, fate) ==
    LET has_action == step.action.form # "none"
        action_result == execute(step.action, fate.actions)
        st1 == IF has_action /\ ~action_result.success THEN "failed" ELSE "running"
        account_key == IF has_action THEN LoginRequest(action_result) ELSE None
        switched == account_key # None
        s0 == IF has_action THEN logout_effect(s, action_result) ELSE s
        sw == IF switched THEN SwitchAccount(s0, account_key, fate.login)
              ELSE [s |-> s0, ret |-> TRUE, calls |-> << >>]
        verified == ShouldVerify(step, st1)
        st2 == IF verified /\ fate.expect = "unmet" THEN "failed" ELSE st1
        shot == ShouldShoot(step, st2)
        raised == shot /\ fate.screenshot = "fault"
        status == IF raised THEN "failed"
                  ELSE IF st2 = "running" THEN "passed" ELSE st2
        trace == (IF has_action THEN action_result.calls ELSE << >>)
                 \o (IF switched
                     THEN << DriverCall("runner", "switch_account", account_key) >> \o sw.calls
                     ELSE << >>)
                 \o (IF verified THEN << DriverCall("assertions", "verify", fate.expect) >>
                     ELSE << >>)
                 \o (IF shot THEN << DriverCall("runner", "screenshot", fate.screenshot) >>
                     ELSE << >>)
        result == [step_id |-> step_id, status |-> status]
    IN [ s |-> record_step_result(sw.s, result),
         result |-> result,
         step |-> step,
         action_result |-> IF has_action THEN action_result
                           ELSE ActionResult(TRUE, "none", 0, None, << >>, << >>),
         switches |-> IF switched THEN << SwitchSeen(account_key, s0, sw) >> ELSE << >>,
         trace |-> trace ]

-----------------------------------------------------------------------------
(* ScenarioRunner.run_all and ScenarioRunner.run_single_step *)

MaxRuns == 2

\* The actions a step may have.
StepActions ==
    {NoAction}
    \cup { SingleAction(a) : a \in ActionSpecs \cup { ActionSpec("login", "ghost"),
                                                     ActionSpec("select", None),
                                                     ActionSpec("logout", None) } }
    \cup UNION { { ActionList(as) : as \in [1 .. n -> ActionSpecs] } : n \in 1 .. MaxActions }

Steps == { Step(a, e, sh) : a \in StepActions, e \in BOOLEAN, sh \in BOOLEAN }

\* The steps of the scenarios whose runs are followed part by part: one that
\* only verifies, one that logs in, one that navigates and takes a screenshot.
RunSteps ==
    { Step(NoAction, TRUE, FALSE),
      Step(SingleAction(ActionSpec("login", "admin")), FALSE, FALSE),
      Step(SingleAction(ActionSpec("goto", None)), FALSE, TRUE) }

\* The fates that make a difference to the step: a driver outcome for each
\* goto, a login outcome if the action is a login, an outcome of verify if
\* there is an expect and of the screenshot if one is asked for.
FatesOf(step) ==
    { StepFate(o, l, e, sh) :
        o \in { f \in [1 .. Len(step.action.specs) -> {"ok", "fault"}] :
                  \A i \in DOMAIN f :
                      step.action.specs[i].kind \notin {"goto", "logout"} => f[i] = "ok" },
        l \in IF step.action.form = "single" /\ step.action.specs[1].kind = "login"
              THEN LoginFates ELSE { [fault |-> TRUE, url |-> << "login" >>] },
        e \in IF step.expect THEN {"met", "unmet"} ELSE {"met"},
        sh \in IF step.screenshot THEN {"ok", "fault"} ELSE {"ok"} }

NoStep == [ran |-> FALSE]
NoSave == [done |-> FALSE]

\* The runner between two runs.
RunnerIdle(runs) ==
    [ pc |-> "idle", mode |-> "none", stop_on_error |-> FALSE,
      parts |-> << >>, part |-> 0, step_index |-> 0, runs |-> runs ]

\* What the latest runner action let be observed: the run_step call, the
\* switch_account calls and the save_results call it made.
Seen(step, switches, saved) == [step |-> step, switches |-> switches, saved |-> saved]
StepSeen(before, r) ==
    [ ran |-> TRUE, result |-> r.result, step |-> r.step,
      action_result |-> r.action_result, trace |-> r.trace,
      recorded |-> TotalSteps(r.s.result_parts) - TotalSteps(before.result_parts) ]
Saved(mode, stop_on_error, s) ==
    [ done |-> TRUE, mode |-> mode, stop_on_error |-> stop_on_error,
      existing |-> results_json, current |-> to_dict(s), parts |-> runner.parts ]

\* Scenario.get_part_for_step: the 1-based index of the part, 0 for None
get_part_for_step(step_id) ==
    IF step_id[1] \in DOMAIN scenario /\ step_id[2] \in 1 .. scenario[step_id[1]].items
    THEN step_id[1] ELSE 0

\* run_scenario's part filter (0 for None; no part of Scenarios is numbered
\* 0): the indices of the parts that are kept
FilterParts(part_filter) ==
    LET all == [i \in DOMAIN scenario |-> i] IN
    IF part_filter = 0 THEN all
    ELSE SelectSeq(all, LAMBDA i : scenario[i].part = part_filter)

\* A failed step is taken for a passed one.
StopNow_Never(stop_on_error, status) == FALSE

\* "if result.status == StepStatus.FAILED and stop_on_error"
StopNow(stop_on_error, status) == stop_on_error /\ status = "failed"

\* A failed account switch ends the run whatever stop_on_error says.
SwitchAborts_Always(stop_on_error, ret, account) == ~ret /\ account # None

\* "if part.account and not success: ... if stop_on_error: break"
SwitchAborts(stop_on_error, ret, account) == ~ret /\ account # None /\ stop_on_error

\* run_all up to its loop over the parts: a new ScenarioSession, set up.
RunAllBegin(stop_on_error, part_filter) ==
    /\ runner.pc = "idle" /\ runner.runs < MaxRuns
    /\ LET parts == FilterParts(part_filter) IN
       runner' = [ pc |-> IF parts = << >> THEN "finish" ELSE "part", mode |-> "all",
                   stop_on_error |-> stop_on_error, parts |-> parts,
                   part |-> 1, step_index |-> 0, runs |-> runner.runs ]
    /\ session' = NewManaged(1)
    /\ seen' = Seen(NoStep, << >>, NoSave)
    /\ UNCHANGED <<yaml, validation, scenario, record_video, registry, obj, next_id, calls, nops, last,
                    results_json>>

\* The head of the loop body: start_part and the account switch of the part.
PartBegin(fate) ==
    /\ runner.pc = "part"
    /\ LET part == scenario[runner.parts[runner.part]]
           s1 == start_part(session, part)
           switch == part.account # s1.current_account
           sw == SwitchAccount(s1, part.account, fate)
       IN IF switch
          THEN /\ session' = sw.s
               /\ seen' = Seen(NoStep, << SwitchSeen(part.account, s1, sw) >>, NoSave)
               /\ runner' = IF SwitchAborts(runner.stop_on_error, sw.ret, part.account)
                            THEN [runner EXCEPT !.pc = "finish"]
                            ELSE [runner EXCEPT !.pc = "steps", !.step_index = 1]
          ELSE /\ session' = s1
               /\ seen' = Seen(NoStep, << >>, NoSave)
               /\ runner' = [runner EXCEPT !.pc = "steps", !.step_index = 1]
    /\ UNCHANGED <<yaml, validation, scenario, record_video, registry, obj, next_id, calls, nops, last,
                    results_json>>

\* One turn of the loop over part.items.
StepRun(step, fate) ==
    /\ runner.pc = "steps"
    /\ runner.step_index <= scenario[runner.parts[runner.part]].items
    /\ LET r == run_step(session, StepId(runner.parts[runner.part] - 1, runner.step_index - 1),
                         step, fate)
       IN /\ session' = r.s
          /\ seen' = Seen(StepSeen(session, r), r.switches, NoSave)
          /\ runner' = IF StopNow(runner.stop_on_error, r.result.status)
                       THEN [runner EXCEPT !.pc = "part_end"]
                       ELSE [runner EXCEPT !.step_index = @ + 1]
    /\ UNCHANGED <<yaml, validation, scenario, record_video, registry, obj, next_id, calls, nops, last,
                    results_json>>

\* After the steps of the part: finish_part and the stop test of run_all.
PartEnd ==
    /\ \/ runner.pc = "part_end"
       \/ /\ runner.pc = "steps"
          /\ runner.step_index > scenario[runner.parts[runner.part]].items
    /\ LET s1 == finish_part(session)
           closed == s1.result_parts[Len(s1.result_parts)]
       IN /\ session' = s1
          /\ runner' = IF (runner.stop_on_error /\ AnyStep(closed, "failed"))
                          \/ runner.part = Len(runner.parts)
                       THEN [runner EXCEPT !.pc = "finish"]
                       ELSE [runner EXCEPT !.pc = "part", !.part = @ + 1]
    /\ seen' = Seen(NoStep, << >>, NoSave)
    /\ UNCHANGED <<yaml, validation, scenario, record_video, registry, obj, next_id, calls, nops, last,
                    results_json>>

\* The end of both entry points: finish_scenario, save_results, teardown
\* (run_single_step finishes the part of its step first).
RunFinish ==
    /\ runner.pc = "finish"
    /\ LET s1 == finish_scenario(IF runner.mode = "single" THEN finish_part(session)
                                 ELSE session)
       IN /\ results_json' = File(save_results(s1, results_json))
          /\ session' = [s1 EXCEPT !.context = FALSE, !.proxy_manager = FALSE]
          /\ seen' = Seen(NoStep, << >>, Saved(runner.mode, runner.stop_on_error, s1))
    /\ runner' = RunnerIdle(runner.runs + 1)
    /\ UNCHANGED <<yaml, validation, scenario, record_video, registry, obj, next_id, calls, nops, last>>

\* run_single_step up to the return of run_step: a new ScenarioSession, set
\* up, is switched to the account of the step's part and runs the step.
SingleStepBegin(step_id, step, part_fate, fate) ==
    /\ runner.pc = "idle" /\ runner.runs < MaxRuns
    /\ UNCHANGED <<yaml, validation, scenario, record_video, registry, obj, next_id, calls, nops, last,
                   results_json>>
    /\ LET found == get_part_for_step(step_id) IN
       IF found = 0
       THEN /\ runner' = RunnerIdle(runner.runs + 1)
            /\ session' = [NewManaged(1) EXCEPT !.context = FALSE]
            /\ seen' = Seen(NoStep, << >>, NoSave)
       ELSE LET part == scenario[found]
                s0 == NewManaged(1)
                switch == part.account # None
                sw == IF switch THEN SwitchAccount(s0, part.account, part_fate)
                      ELSE [s |-> s0, ret |-> TRUE, calls |-> << >>]
                s1 == start_part(sw.s, part)
                r == run_step(s1, step_id, step, fate)
            IN /\ runner' = [ pc |-> "finish", mode |-> "single", stop_on_error |-> FALSE,
                              parts |-> << found >>, part |-> 1,
                              step_index |-> step_id[2], runs |-> runner.runs ]
               /\ session' = r.s
               /\ seen' = Seen(StepSeen(s1, r),
                               (IF switch THEN << SwitchSeen(part.account, s0, sw) >>
                                ELSE << >>) \o r.switches,
                               NoSave)

-----------------------------------------------------------------------------
(* ScenarioParser: _parse_scenario and validate *)

MaxParts == 2
MaxItems == 1

\* A key the mapping does not have.
Absent == "absent"

\* The YAML data of a step (its id, the account its login action names, if
\* it has one) and of a part (its account, its items).
StepData(id, login) == [id |-> id, login |-> login]
StepDatas == { StepData("a", None), StepData("b", None), StepData("a", "ghost") }
PartData(account, items) == [account |-> account, items |-> items]
PartDatas ==
    { PartData(acc, items) :
        acc \in {None, "ghost"},
        items \in UNION { [1 .. n -> StepDatas] : n \in 0 .. MaxItems } }

\* The documents given to the parser: meta.id and meta.title absent, empty or
\* given, the account "admin" declared, up to MaxParts parts.
Documents ==
    { [ meta_id |-> id, meta_title |-> title, steps |-> parts ] :
        id \in {Absent, "", "s1"},
        title \in {Absent, ""},
        parts \in UNION { [1 .. n -> PartDatas] : n \in 0 .. MaxParts } }

\* _parse_scenario: the Scenario built from the data
parse_scenario(data) ==
    [ meta_id |-> IF data.meta_id = Absent THEN "unknown" ELSE data.meta_id,
      meta_title |-> IF data.meta_title = Absent THEN "Untitled" ELSE data.meta_title,
      accounts |-> Accounts,
      steps |-> [ i \in DOMAIN data.steps |->
                    [ part |-> i,
                      account |-> data.steps[i].account,
                      items |-> [ j \in DOMAIN data.steps[i].items |->
                                    [ id |-> data.steps[i].items[j].id,
                                      login |-> data.steps[i].items[j].login ] ] ] ] ]

\* An entry of errors or of warnings.
Problem(kind, what) == [kind |-> kind, what |-> what]

\* The steps of all parts, in order.
RECURSIVE AllItems(_)
AllItems(parts) ==
    IF parts = << >> THEN << >>
    ELSE AllItems(SubSeq(parts, 1, Len(parts) - 1)) \o parts[Len(parts)].items

\* "Check step IDs are unique": one error for each repeated occurrence
RECURSIVE DuplicateErrors(_, _)
DuplicateErrors(items, k) ==
    IF k = 0 THEN << >>
    ELSE DuplicateErrors(items, k - 1)
         \o (IF \E j \in 1 .. k - 1 : items[j].id = items[k].id
             THEN << Problem("duplicate_step_id", items[k].id) >> ELSE << >>)

\* "Check login action references" for the items of one part
RECURSIVE LoginWarnings(_, _, _)
LoginWarnings(items, accounts, k) ==
    IF k = 0 THEN << >>
    ELSE LoginWarnings(items, accounts, k - 1)
         \o (IF items[k].login # None /\ items[k].login \notin accounts
             THEN << Problem("step_account", items[k].login) >> ELSE << >>)

\* "Check account references"
RECURSIVE AccountWarnings(_, _, _)
AccountWarnings(parts, accounts, k) ==
    IF k = 0 THEN << >>
    ELSE AccountWarnings(parts, accounts, k - 1)
         \o (IF parts[k].account # None /\ parts[k].account \notin accounts
             THEN << Problem("part_account", parts[k].account) >> ELSE << >>)
         \o LoginWarnings(parts[k].items, accounts, Len(parts[k].items))

\* "if not scenario.meta.id"
MissingId(id) == id = ""

\* ScenarioParser.validate
validate(sc) ==
    LET errors ==
            (IF MissingId(sc.meta_id) THEN << Problem("missing_id", "") >> ELSE << >>)
            \o (IF sc.steps = << >> THEN << Problem("no_steps", "") >> ELSE << >>)
            \o DuplicateErrors(AllItems(sc.steps), Len(AllItems(sc.steps)))
        warnings ==
            (IF sc.meta_title = "" THEN << Problem("missing_title", "") >> ELSE << >>)
            \o AccountWarnings(sc.steps, sc.accounts, Len(sc.steps))
    IN [ is_valid |-> Len(errors) = 0, errors |-> errors, warnings |-> warnings ]

NotParsed == [stage |-> "none"]

\* parse --validate: parser.parse(file)
Parse ==
    /\ validation.stage = "none"
    /\ validation' = [stage |-> "parsed", scenario |-> parse_scenario(yaml)]
    /\ UNCHANGED <<yaml, scenario, record_video, registry, obj, next_id, calls, nops, last,
                   results_json, runner, session, seen>>

\* parse --validate: parser.validate(scenario)
Validate ==
    /\ validation.stage = "parsed"
    /\ validation' = [ stage |-> "validated", scenario |-> validation.scenario,
                       returned |-> validate(validation.scenario) ]
    /\ UNCHANGED <<yaml, scenario, record_video, registry, obj, next_id, calls, nops, last,
                   results_json, runner, session, seen>>

-----------------------------------------------------------------------------
(* Specifications *)

NoReturn == [op |-> "none", sid |-> 0, outcome |-> "none"]

\* No document has been given to the parse command.
NoDocument == [meta_id |-> Absent, meta_title |-> Absent, steps |-> << >>]

Init ==
    /\ yaml = NoDocument
    /\ validation = NotParsed
    /\ scenario \in Scenarios
    /\ record_video \in BOOLEAN
    /\ registry = {}
    /\ obj = << >>
    /\ next_id = 0
    /\ nops = 0
    /\ calls = [c \in Slots |-> Idle]
    /\ last = NoReturn
    /\ results_json \in PriorFiles
    /\ runner = RunnerIdle(0)
    /\ session = NewManaged(1)
    /\ seen = Seen(NoStep, << >>, NoSave)

AllIdle == \A c \in Slots : calls[c] = Idle

Resume(c) ==
    \/ ClearCookiesDone(c)
    \/ \E ok \in BOOLEAN : LoginDone(c, ok)
    \/ \E status \in {"passed", "failed"} : RunStepDone(c, status)
    \/ \E fate \in TeardownFates : TeardownDone(c, fate)

\* The caller awaits each call before it makes the next one (the CLI runs
\* every command to its end with asyncio.run).
Next ==
    \/ /\ AllIdle
       /\ \/ \E p \in 1 .. Len(scenario) : Create(p)
          \/ \E sid \in SessionIds, retry \in BOOLEAN, skip \in BOOLEAN :
                 StepBegin(1, sid, retry, skip)
          \/ \E sid \in SessionIds, io_error \in BOOLEAN : EndBegin(1, sid, io_error)
    \/ Resume(1)

Spec == Init /\ [][Next]_vars

\* Calls may be made while others are suspended.
NextOverlap ==
    \/ \E p \in 1 .. Len(scenario) : Create(p)
    \/ \E c \in Slots, sid \in SessionIds, retry \in BOOLEAN, skip \in BOOLEAN :
           StepBegin(c, sid, retry, skip)
    \/ \E c \in Slots, sid \in SessionIds, io_error \in BOOLEAN : EndBegin(c, sid, io_error)
    \/ \E c \in Slots : Resume(c)

OverlapSpec == Init /\ [][NextOverlap]_vars

\* The part numbers a --part filter may name.
PartFilters == {0} \cup { scenario[i].part : i \in DOMAIN scenario }

\* The step ids a run_single_step caller may name: those of the scenario and
\* one that no step has.
StepIdsNamed ==
    { StepId(i - 1, j - 1) : i \in DOMAIN scenario, j \in 1 .. 2 } \cup { <<Len(scenario) + 1, 1>> }

\* Batch runs: run_all (with or without a part filter) and run_single_step,
\* one after the other on the same output directory.
RunnerNext ==
    \/ \E stop_on_error \in BOOLEAN, part_filter \in PartFilters :
           RunAllBegin(stop_on_error, part_filter)
    \/ \E fate \in LoginFates : PartBegin(fate)
    \/ /\ runner.pc = "steps"
       /\ \E step \in RunSteps : \E fate \in FatesOf(step) : StepRun(step, fate)
    \/ PartEnd
    \/ RunFinish
    \/ /\ runner.pc = "idle"
       /\ \E step_id \in StepIdsNamed, step \in RunSteps, part_fate \in LoginFates :
              \E fate \in FatesOf(step) : SingleStepBegin(step_id, step, part_fate, fate)

RunnerSpec == Init /\ [][RunnerNext]_vars

\* One run_single_step call on any step of Steps.
StepNext ==
    \/ /\ runner.pc = "idle" /\ runner.runs = 0
       /\ \E step_id \in StepIdsNamed, step \in Steps, part_fate \in LoginFates :
              \E fate \in FatesOf(step) : SingleStepBegin(step_id, step, part_fate, fate)
    \/ RunFinish

StepSpec == Init /\ [][StepNext]_vars

\* A session has been created from some part of the scenario; its caller
\* does nothing but call execute_next_step, without retry and without skip,
\* awaiting each call, for as long as it likes.
DriveInit ==
    /\ yaml = NoDocument
    /\ validation = NotParsed
    /\ scenario \in Scenarios
    /\ record_video \in BOOLEAN
    /\ registry = {1}
    /\ \E p \in 1 .. Len(scenario) : obj = << NewManaged(p) >>
    /\ next_id = 1
    /\ nops = 0
    /\ calls = [c \in Slots |-> Idle]
    /\ last = [op |-> "create", sid |-> 1, outcome |-> "ok"]
    /\ results_json = NoFile
    /\ runner = RunnerIdle(0)
    /\ session = NewManaged(1)
    /\ seen = Seen(NoStep, << >>, NoSave)

DriveNext ==
    \/ AllIdle /\ StepBegin(1, 1, FALSE, FALSE)
    \/ ClearCookiesDone(1)
    \/ \E ok \in BOOLEAN : LoginDone(1, ok)
    \/ \E status \in {"passed", "failed"} : RunStepDone(1, status)

\* The caller goes on calling and every driver call ends.
DriveSpec == DriveInit /\ [][DriveNext]_vars /\ WF_vars(DriveNext)

\* The scenarios run both ways: those of Scenarios and one whose first part
\* has an account and two steps.
BothWaysScenarios == Scenarios \cup { << Part(1, "admin", 2), Part(2, None, 1) >> }

\* A session has been created from part 1 of the scenario, and run_all has
\* not been called yet.
BothWaysInit ==
    /\ yaml = NoDocument
    /\ validation = NotParsed
    /\ scenario \in BothWaysScenarios
    /\ record_video \in BOOLEAN
    /\ registry = {1}
    /\ obj = << NewManaged(1) >>
    /\ next_id = 1
    /\ nops = 0
    /\ calls = [c \in Slots |-> Idle]
    /\ last = [op |-> "create", sid |-> 1, outcome |-> "ok"]
    /\ results_json = NoFile
    /\ runner = RunnerIdle(0)
    /\ session = NewManaged(1)
    /\ seen = Seen(NoStep, << >>, NoSave)

\* The scenario is run twice, in any interleaving: by a caller that drives
\* the session with execute_next_step, without retry and without skip, and
\* by one run_all without stop_on_error and without a part filter.
BothWaysNext ==
    \/ AllIdle /\ StepBegin(1, 1, FALSE, FALSE)
    \/ ClearCookiesDone(1)
    \/ \E ok \in BOOLEAN : LoginDone(1, ok)
    \/ \E status \in {"passed", "failed"} : RunStepDone(1, status)
    \/ runner.runs = 0 /\ RunAllBegin(FALSE, 0)
    \/ \E fate \in LoginFates : PartBegin(fate)
    \/ /\ runner.pc = "steps"
       /\ \E step \in RunSteps : \E fate \in FatesOf(step) : StepRun(step, fate)
    \/ PartEnd
    \/ RunFinish

BothWaysSpec == BothWaysInit /\ [][BothWaysNext]_vars

\* The awaited calls of Spec and cleanup_all.
CleanupNext ==
    \/ Next
    \/ AllIdle /\ CleanupBegin(1)
    \/ \E io_error \in BOOLEAN : CleanupEnd(1, io_error)
    \/ CleanupReturn(1)

CleanupSpec == Init /\ [][CleanupNext]_vars

\* The parse command with --validate on any document of Documents.
ValidateInit ==
    /\ yaml \in Documents
    /\ validation = NotParsed
    /\ scenario = << >>
    /\ record_video = FALSE
    /\ registry = {}
    /\ obj = << >>
    /\ next_id = 0
    /\ nops = 0
    /\ calls = [c \in Slots |-> Idle]
    /\ last = NoReturn
    /\ results_json = NoFile
    /\ runner = RunnerIdle(0)
    /\ session = NewManaged(1)
    /\ seen = Seen(NoStep, << >>, NoSave)

ValidateNext == Parse \/ Validate

ValidateSpec == ValidateInit /\ [][ValidateNext]_vars

-----------------------------------------------------------------------------
(* Properties *)

\* The event is the return of a successful execute_next_step call.
StepReturned(e) == e.op = "step" /\ e.outcome = "ok"

\* The event is the return of an end call that saved the results.
EndReturned(e) == e.op = "end" /\ e.outcome = "ok"

\* Slot c holds an execute_next_step call suspended in the page driver.
InStep(c) == calls[c] # Idle /\ calls[c].op = "step"

\* The last StepResult of the last PartResult of a result.
LastRecorded(m) ==
    LET pr == m.result_parts[Len(m.result_parts)] IN pr.steps[Len(pr.steps)]

\* C1: overlapping execute_next_step calls on one session are serialized: no
\* two of them are in flight on the same session at once, and a successful
\* call without retry that processed a step that is not the last of its part
\* hands out the following step of that part as the next one (none is jumped).
C1_OverlappingCallsSerialized ==
    /\ \A c, d \in Slots :
           (c # d /\ InStep(c) /\ InStep(d)) => calls[c].sid # calls[d].sid
    /\ (StepReturned(last) /\ ~last.retry
          /\ last.step_id[2] < scenario[last.step_id[1]].items)
       => last.next_step = <<last.step_id[1], last.step_id[2] + 1>>

\* C2: a successful call without retry processes the step at the cursor (its
\* StepResult is the one appended, skipped iff skip) and moves the cursor to
\* the following step: the next index in the part, or step 0 of the next part
\* after the last step of a part.
C2_AdvancesToFollowingStep ==
    [][ (StepReturned(last') /\ ~last'.retry) =>
          LET m == obj[last'.sid]
              n == obj'[last'.sid]
              part == scenario[m.current_part_index + 1]
          IN /\ last'.step_id = StepId(m.current_part_index, m.current_step_index)
             /\ TotalSteps(n.result_parts) = TotalSteps(m.result_parts) + 1
             /\ LastRecorded(n).step_id = last'.step_id
             /\ (LastRecorded(n).status = "skipped") = last'.skip
             /\ IF m.current_step_index + 1 < part.items
                THEN /\ n.current_part_index = m.current_part_index
                     /\ n.current_step_index = m.current_step_index + 1
                ELSE /\ n.current_part_index = m.current_part_index + 1
                     /\ n.current_step_index = 0 ]_vars

\* A call without retry processed the last step of a part and the cursor is
\* on step 0 of the next part.
C2_Witness ==
    /\ StepReturned(last) /\ ~last.retry
    /\ last.is_part_change /\ ~last.is_completed
    /\ obj[last.sid].current_step_index = 0
    /\ obj[last.sid].current_part_index = last.step_id[1]

\* C3: a call with retry processes the step at the cursor (running it unless
\* skip is set), leaves both cursor indices unchanged and returns that step's
\* id as next_step.
C3_RetryKeepsCursor ==
    [][ (StepReturned(last') /\ last'.retry) =>
          LET m == obj[last'.sid]
              n == obj'[last'.sid]
          IN /\ last'.step_id = StepId(m.current_part_index, m.current_step_index)
             /\ n.current_part_index = m.current_part_index
             /\ n.current_step_index = m.current_step_index
             /\ last'.next_step = last'.step_id
             /\ LastRecorded(n).step_id = last'.step_id
             /\ ~last'.skip => n.executed_steps = m.executed_steps + 1 ]_vars

\* The second of two consecutive retries of the first step has returned.
C3_Witness ==
    /\ StepReturned(last) /\ last.retry /\ ~last.skip
    /\ obj[last.sid].executed_steps = 2
    /\ obj[last.sid].skipped_steps = 0
    /\ last.step_id[2] = 1
    /\ obj[last.sid].current_step_index = 0

\* C4: a successful call with skip makes no page-driver call and returns a
\* skipped StepResult.
C4_SkipNeverDrivesPage ==
    (StepReturned(last) /\ last.skip) => (~last.driver /\ last.result = "skipped")

\* The sessions that are on the heap before and after a step.
Live == { s \in DOMAIN obj : obj[s] # Gone }

\* The step processed by the returned call is the last of the last part.
LastStepOfScenario(e) ==
    /\ e.step_id[1] = Len(scenario)
    /\ e.step_id[2] = scenario[Len(scenario)].items

\* C5: a session becomes completed exactly when a call without retry
\* processes the last step of the last part, and that call returns
\* is_completed; a step call on a completed session is rejected and changes
\* nothing of the session (no result, cursor index or counter).
C5_CompletedIsFinal ==
    [][ \A s \in Live :
          /\ (obj[s].status # "completed" /\ obj'[s] # Gone
                /\ obj'[s].status = "completed")
             => (StepReturned(last') /\ last'.sid = s /\ ~last'.retry
                   /\ last'.is_completed /\ LastStepOfScenario(last'))
          /\ (StepReturned(last') /\ last'.sid = s /\ ~last'.retry
                /\ LastStepOfScenario(last'))
             => (last'.is_completed /\ obj'[s].status = "completed")
          /\ (StepReturned(last') /\ last'.sid = s /\ last'.is_completed)
             => (~last'.retry /\ LastStepOfScenario(last'))
          /\ (obj[s].status = "completed" /\ last'.op = "step" /\ last'.sid = s)
             => (last'.outcome = "completed" /\ obj'[s] = obj[s]) ]_vars

\* A step call on a completed session was rejected.
C5_Witness ==
    /\ last.op = "step" /\ last.outcome = "completed"
    /\ last.sid \in registry
    /\ obj[last.sid].current_part_index = Len(scenario)

\* C6: execute_next_step and end on a session id that is not in the registry
\* raise not-found and change neither the registry nor any session.
C6_UnknownIdChangesNothing ==
    [][ /\ (AllIdle /\ last'.op \in {"step", "end"} /\ last'.sid \notin registry)
           => last'.outcome = "not_found"
        /\ last'.outcome = "not_found"
           => (registry' = registry /\ obj' = obj /\ results_json' = results_json) ]_vars

\* A call named an unknown id while a session that has run a step is registered.
C6_Witness ==
    /\ last.outcome = "not_found"
    /\ \E s \in registry : obj[s].status = "paused" /\ obj[s].result_parts # << >>

\* The step ids with a passed or failed StepResult in the parts.
Ran(parts) ==
    UNION { { parts[i].steps[j].step_id :
                j \in { k \in DOMAIN parts[i].steps :
                          parts[i].steps[k].status \in {"passed", "failed"} } } :
            i \in DOMAIN parts }

AllStepIds ==
    UNION { { <<i, j>> : j \in 1 .. scenario[i].items } : i \in DOMAIN scenario }

\* C7: end reports failed if a step run in the session failed; otherwise it
\* reports passed only if every step of the scenario was run in the session,
\* and partial if it does not report passed.
C7_EndStatus ==
    EndReturned(last) =>
        LET parts == last.current.parts IN
        IF CountSteps(parts, "failed") > 0 THEN last.status = "failed"
        ELSE /\ last.status \in {"passed", "partial"}
             /\ last.status = "passed" => Ran(parts) = AllStepIds

\* C8: after end the scenario status in results.json and in the session's
\* ScenarioResult is finalized: failed if a recorded part failed, otherwise
\* passed if one passed, otherwise skipped; never pending or running.
C8_StatusFinalized ==
    EndReturned(last) =>
        LET parts == last.current.parts
            final == IF AnyPart(parts, "failed") THEN "failed"
                     ELSE IF AnyPart(parts, "passed") THEN "passed"
                     ELSE "skipped"
        IN /\ last.current.status = final
           /\ results_json.content.status \notin {"pending", "running"}

\* C9: an end call on a registered session removes its id from the registry
\* whatever the outcome of the call (results saved, or writing them failed);
\* get_session and list_sessions no longer give it, it never comes back, and
\* a later call that names it raises not-found.
C9_EndRemovesSession ==
    [][ /\ \A s \in registry :
              (last'.op = "end" /\ last'.sid = s)
              => /\ s \notin registry'
                 /\ get_session(s)' = 0
                 /\ s \notin list_sessions'
        /\ \A s \in 1 .. next_id : s \notin registry => s \notin registry'
        /\ (AllIdle /\ last'.op \in {"step", "end"}
              /\ last'.sid \in 1 .. next_id /\ last'.sid \notin registry)
           => last'.outcome = "not_found" ]_vars

\* An end call failed while writing results.json and its session is gone.
C9_Witness ==
    /\ last.op = "end" /\ last.outcome = "io_error"
    /\ last.sid \notin registry
    /\ get_session(last.sid) = 0

PartNums(parts) == { parts[i].part : i \in DOMAIN parts }

Occurrences(p, parts) == Cardinality({ i \in DOMAIN parts : parts[i] = p })

PartsOf(parts) == { parts[i] : i \in DOMAIN parts }

\* C10: when save_results finds a results.json whose part numbers are disjoint
\* from those of the result it saves, the parts written are those of both, in
\* ascending part-number order, and each summary count is the sum of the two.
C10_DisjointMergeIsUnion ==
    (EndReturned(last) /\ last.existing.exists
       /\ PartNums(last.existing.content.parts) \cap PartNums(last.current.parts) = {})
    => LET old == last.existing.content
           cur == last.current
           new == results_json.content
       IN /\ \A i \in 1 .. Len(new.parts) - 1 : new.parts[i].part <= new.parts[i + 1].part
          /\ \A p \in PartsOf(new.parts) \cup PartsOf(old.parts) \cup PartsOf(cur.parts) :
                Occurrences(p, new.parts)
                    = Occurrences(p, old.parts) + Occurrences(p, cur.parts)
          /\ new.summary.total_steps = old.summary.total_steps + cur.summary.total_steps
          /\ new.summary.passed = old.summary.passed + cur.summary.passed
          /\ new.summary.failed = old.summary.failed + cur.summary.failed
          /\ new.summary.skipped = old.summary.skipped + cur.summary.skipped

\* A session that recorded steps of a lower-numbered part was saved over the
\* results of a higher-numbered part.
C10_Witness ==
    /\ EndReturned(last) /\ last.existing.exists
    /\ PartNums(last.existing.content.parts) \cap PartNums(last.current.parts) = {}
    /\ last.current.summary.total_steps > 0
    /\ last.current.parts[1].part < last.existing.content.parts[1].part
    /\ Len(results_json.content.parts) = 2

\* The part numbers of a parts list never decrease from one entry to the next.
Ascending(parts) ==
    \A i \in 1 .. Len(parts) - 1 : parts[i].part <= parts[i + 1].part

\* C12: in every results.json that save_results has written, first write or
\* merge, the parts are in ascending part-number order.
C12_PartsAscending ==
    results_json.exists => Ascending(results_json.content.parts)

\* The status a PartResult has to show for the steps recorded in it.
PartStatusDerived(pr) ==
    /\ AnyStep(pr, "failed") => pr.status = "failed"
    /\ (~AnyStep(pr, "failed") /\ AnyStep(pr, "passed")) => pr.status = "passed"

\* C15: after every event the status of each PartResult of a session is
\* failed if a step recorded in it failed and otherwise passed if one passed,
\* and a PartResult that is failed stays failed whatever is recorded next and
\* when the part is finished.
C15_PartStatusFailedWins ==
    [][ \A s \in Live :
          obj'[s] # Gone =>
            LET old == obj[s].result_parts
                new == obj'[s].result_parts
            IN /\ \A i \in DOMAIN new : PartStatusDerived(new[i])
               /\ \A i \in DOMAIN old :
                     old[i].status = "failed" => new[i].status = "failed" ]_vars

\* A step passed in a part after an earlier step of the part had failed.
C15_Witness ==
    /\ StepReturned(last) /\ last.result = "passed"
    /\ obj[last.sid] # Gone
    /\ \E i \in DOMAIN obj[last.sid].result_parts :
          LET pr == obj[last.sid].result_parts[i] IN
          /\ Len(pr.steps) = 2
          /\ pr.steps[1].status = "failed" /\ pr.steps[2].status = "passed"
          /\ pr.status = "failed"

\* The entries of a parts list that have the part number, in order.
WithNumber(parts, n) == SelectSeq(parts, LAMBDA p : p.part = n)

\* C11: when save_results finds a results.json, every part of it whose number
\* the saved result does not have is written unchanged, for every part number
\* of the saved result the written entries are those of the saved result, and
\* every part number of the file found is in the file written.
C11_MergeKeepsOtherParts ==
    (seen.saved.done /\ seen.saved.existing.exists) =>
        LET old == seen.saved.existing.content.parts
            cur == seen.saved.current.parts
            new == results_json.content.parts
        IN /\ \A n \in PartNums(old) \ PartNums(cur) : WithNumber(new, n) = WithNumber(old, n)
           /\ \A n \in PartNums(cur) : WithNumber(new, n) = WithNumber(cur, n)
           /\ PartNums(old) \subseteq PartNums(new)

\* A run of one part was saved over the results of two: one part was kept,
\* the other replaced by a different result.
C11_Witness ==
    /\ seen.saved.done /\ seen.saved.existing.exists
    /\ LET old == seen.saved.existing.content.parts
           cur == seen.saved.current.parts
           new == results_json.content.parts
       IN /\ Len(old) = 2 /\ Len(cur) = 1 /\ Len(new) = 2
          /\ \E i \in DOMAIN old : old[i].part = cur[1].part /\ old[i] # cur[1]
          /\ \E i \in DOMAIN old : old[i].part # cur[1].part /\ TotalSteps(<< old[i] >>) > 0

\* C13: in run_all with stop_on_error, once a recorded step is failed no
\* further step is run or recorded and no further part is opened, and the run
\* ends with scenario status failed.
C13_StopOnErrorHalts ==
    [][ (runner.mode = "all" /\ runner.stop_on_error
           /\ CountSteps(session.result_parts, "failed") > 0)
        => /\ ~seen'.step.ran
           /\ Len(session'.result_parts) = Len(session.result_parts)
           /\ TotalSteps(session'.result_parts) = TotalSteps(session.result_parts)
           /\ CountSteps(session'.result_parts, "failed") = 1
           /\ runner'.pc = "idle"
              => /\ seen'.saved.current.status = "failed"
                 /\ session'.result_status = "failed" ]_vars

\* Step 2 of the first part failed under stop_on_error: two steps are
\* recorded, the second part of the scenario is absent, the status is failed.
C13_Witness ==
    /\ seen.saved.done /\ seen.saved.mode = "all" /\ seen.saved.stop_on_error
    /\ Len(scenario) = 2 /\ scenario[2].items > 0
    /\ LET parts == seen.saved.current.parts IN
       /\ Len(parts) = 1 /\ parts[1].part = scenario[1].part
       /\ Len(parts[1].steps) = 2
       /\ parts[1].steps[1].status = "passed" /\ parts[1].steps[2].status = "failed"
    /\ seen.saved.current.status = "failed"

\* A call of the kind is in the trace, with the outcome.
Traced(trace, call, outcome) ==
    \E i \in DOMAIN trace : trace[i].call = call /\ trace[i].outcome = outcome
Called(trace, call) == \E i \in DOMAIN trace : trace[i].call = call

\* C14: run_step evaluates expect only if the action did not fail, takes a
\* screenshot only if the step asks for one and nothing has failed, records
\* passed exactly when no action failed, no assertion was unmet and no
\* screenshot faulted, never records another status than passed or failed,
\* and records exactly one StepResult.
C14_RunStepOutcome ==
    seen.step.ran =>
        LET o == seen.step
            action_failed == ~o.action_result.success
            unmet == Traced(o.trace, "verify", "unmet")
            shot_fault == Traced(o.trace, "screenshot", "fault")
        IN /\ Called(o.trace, "verify") => (o.step.expect /\ ~action_failed)
           /\ Called(o.trace, "screenshot")
                 => (o.step.screenshot /\ ~action_failed /\ ~unmet)
           /\ o.result.status = "passed" <=> (~action_failed /\ ~unmet /\ ~shot_fault)
           /\ o.result.status \in {"passed", "failed"}
           /\ o.recorded = 1

\* The action succeeded, an assertion was unmet, and the screenshot the step
\* asks for was not taken.
C14_Witness ==
    /\ seen.step.ran
    /\ seen.step.step.action.form = "single" /\ seen.step.action_result.success
    /\ seen.step.step.expect /\ seen.step.step.screenshot
    /\ Traced(seen.step.trace, "verify", "unmet")
    /\ ~Called(seen.step.trace, "screenshot")
    /\ seen.step.result.status = "failed"

\* The login protocol of the switch ran to its end and the URL it read does
\* not contain "/login".
EndedOffLogin(w) ==
    /\ w.calls # << >>
    /\ w.calls[Len(w.calls)].call = "read_url"
    /\ ~ContainsLogin(w.calls[Len(w.calls)].url)

\* The switch_account calls the latest action made.
Switches == { seen.switches[i] : i \in DOMAIN seen.switches }

\* C16: switch_account(k), k an account key other than the current account,
\* returns true iff the login protocol ends on a URL without "/login";
\* current_account is k afterwards iff it returned true; for an undeclared
\* key it returns false and does not navigate to the login page; after a false
\* return current_account is null.
C16_SwitchOutcome ==
    \A w \in Switches :
        (w.key # None /\ w.key # w.before) =>
            /\ w.ret <=> EndedOffLogin(w)
            /\ w.after = w.key <=> w.ret
            /\ w.key \notin Accounts => (~w.ret /\ ~Called(w.calls, "goto_login"))
            /\ ~w.ret => w.after = None

\* A login of a declared account ended on a page whose URL contains
\* "/login": the call returned false and nobody is logged in.
C16_Witness ==
    \E w \in Switches :
        /\ w.key = "admin" /\ w.before = None
        /\ Called(w.calls, "read_url") /\ ~EndedOffLogin(w)
        /\ ~w.ret /\ w.after = None

\* C17: switch_account(k) with k the current account returns true, makes no
\* driver call and leaves current_account as it is.
C17_SameAccountNoOp ==
    \A w \in Switches :
        w.key = w.before => (w.ret /\ w.calls = << >> /\ w.after = w.before)

\* A step logs in to the account its part has already switched to.
C17_Witness ==
    \E w \in Switches : w.key = "admin" /\ w.before = "admin" /\ w.ret

\* C18: whenever switch_account is asked for another account than the current
\* one, its first driver call clears the cookies, whatever current_account is.
C18_CookiesAlwaysCleared ==
    \A w \in Switches :
        w.key # w.before => (w.calls # << >> /\ w.calls[1].call = "clear_cookies")

\* The account keys of the login actions the interpreter processed.
LoginsProcessed(o) ==
    IF o.step.action.form = "single"
    THEN { o.step.action.specs[i].account :
             i \in { j \in DOMAIN o.step.action.specs : o.step.action.specs[j].kind = "login" } }
    ELSE { o.action_result.results[i].account :
             i \in { j \in DOMAIN o.action_result.results :
                       o.action_result.results[j].action_type = "login" } }

\* C19: a login action makes no driver call in the interpreter and succeeds
\* carrying its account key, and run_step calls switch_account for that key
\* after the calls of the action and before expect is evaluated, whether the
\* login is the single action of the step or an element of its action list.
C19_LoginDeferredToSession ==
    seen.step.ran =>
        LET o == seen.step IN
        /\ \A i \in DOMAIN o.action_result.results :
              o.action_result.results[i].action_type = "login"
              => (o.action_result.results[i].success /\ o.action_result.results[i].calls = << >>)
        /\ \A k \in LoginsProcessed(o) :
              \E i \in DOMAIN o.trace :
                 /\ o.trace[i].call = "switch_account" /\ o.trace[i].outcome = k
                 /\ \A j \in DOMAIN o.trace :
                       /\ o.trace[j].by = "interpreter" => j < i
                       /\ o.trace[j].call = "verify" => j > i

\* The driver calls of the interpreter, in trace order.
InterpreterCalls(trace) == SelectSeq(trace, LAMBDA c : c.by = "interpreter")

\* The number of gotos among the first k actions.
Gotos(actions, k) == Cardinality({ i \in 1 .. k : actions[i].kind = "goto" })

\* C20: an action list runs in list order and stops after its first failed
\* action; the composite is then a failure that names the 1-based position of
\* that action and carries the results of the actions run, the failed one
\* last; if none fails it is a success with one result for each action.
C20_ListShortCircuits ==
    (seen.step.ran /\ seen.step.step.action.form = "list") =>
        LET r == seen.step.action_result
            actions == seen.step.step.action.specs
            k == Len(r.results)
        IN /\ r.action_type = "multi"
           /\ k \in 1 .. Len(actions)
           /\ \A i \in 1 .. k : r.results[i].action_type = actions[i].kind
           /\ \A i \in 1 .. k - 1 : r.results[i].success
           /\ Len(InterpreterCalls(seen.step.trace)) = Gotos(actions, k)
           /\ IF r.results[k].success
              THEN r.success /\ k = Len(actions) /\ r.error_index = 0
              ELSE ~r.success /\ r.error_index = k

\* The first of two listed actions failed: the second was not run.
C20_Witness ==
    /\ seen.step.ran /\ seen.step.step.action.form = "list"
    /\ Len(seen.step.step.action.specs) = 2
    /\ seen.step.step.action.specs[2].kind = "goto"
    /\ Len(seen.step.action_result.results) = 1
    /\ seen.step.action_result.error_index = 1
    /\ InterpreterCalls(seen.step.trace) = << DriverCall("interpreter", "goto", "fault") >>

\* C21: ActionExecutor.execute never raises to its caller: whatever the
\* action spec of the step, run_step gets an ActionResult from it.
C21_ExecuteNeverRaises ==
    seen.step.ran => ~seen.step.action_result.raised

\* The step ids of the document that occur more than once.
DuplicatedIds(data) ==
    LET items == AllItems(data.steps)
    IN { items[k].id : k \in { k \in DOMAIN items :
                                  \E j \in DOMAIN items : j # k /\ items[j].id = items[k].id } }

\* C22: validate returns is_valid exactly when errors is empty, and errors
\* has an entry exactly when meta.id is missing or empty, there is no part,
\* or a step id occurs more than once; warnings do not make is_valid false.
C22_ValidateErrors ==
    validation.stage = "validated" =>
        LET r == validation.returned IN
        /\ r.is_valid <=> r.errors = << >>
        /\ r.errors # << >> <=> \/ yaml.meta_id \in {Absent, ""}
                                \/ yaml.steps = << >>
                                \/ DuplicatedIds(yaml) # {}

\* The positions of a call in a trace.
At(trace, call) == { i \in DOMAIN trace : trace[i].call = call }

\* C23: teardown takes the video handle before it closes the context and
\* closes the context before it saves the video; if the save times out or
\* faults teardown still completes: the proxy is stopped, video_path stays
\* unset and no error leaves teardown.
C23_TeardownOrder ==
    (EndReturned(last) /\ last.teardown.ran) =>
        LET t == last.teardown.trace IN
        /\ \A i \in At(t, "context.close") : \E j \in At(t, "page.video") : j < i
        /\ \A i \in At(t, "video.save_as") : \E j \in At(t, "context.close") : j < i
        /\ (\E i \in At(t, "video.save_as") : t[i].outcome \in {"timeout", "fault"})
              => /\ ~last.teardown.raised
                 /\ At(t, "proxy.stop") # {}
                 /\ ~last.proxy_manager
                 /\ last.video_path = None

\* An end call of a recording session whose video save timed out.
C23_Witness ==
    /\ EndReturned(last) /\ last.teardown.ran
    /\ \E i \in At(last.teardown.trace, "video.save_as") :
           last.teardown.trace[i].outcome = "timeout"
    /\ At(last.teardown.trace, "proxy.stop") # {}

\* C24: after end returns, the ScenarioSession of the session is torn down:
\* its context is closed and its proxy is stopped, with or without video.
C24_EndTearsDown ==
    EndReturned(last) => (~last.context /\ ~last.proxy_manager)

\* The event is the end of a cleanup_all call: its return or an error.
CleanupOver(e) == e.op = "cleanup" /\ e.outcome \in {"ok", "raised"}

\* C25: cleanup_all returns normally with the registry empty; every session
\* that was registered has been ended, also those that follow a session
\* whose end raised.
C25_CleanupEndsAll ==
    CleanupOver(last) =>
        /\ last.outcome = "ok"
        /\ registry = {}
        /\ Len(last.ended) = Len(last.session_ids)
        /\ \A i \in DOMAIN last.session_ids :
              /\ last.ended[i].sid = last.session_ids[i]
              /\ obj[last.session_ids[i]] = Gone

\* Two sessions were registered; the end of the first one raised and the
\* second one was ended all the same.
C25_Witness ==
    /\ CleanupOver(last) /\ last.outcome = "ok"
    /\ Len(last.session_ids) = 2
    /\ last.ended[1].raised /\ ~last.ended[2].raised
    /\ registry = {}

\* C26: with calls on two sessions interleaved in any way, a step of
\* execute_next_step or of end on one session leaves every other session
\* (cursor, status, counters, current account, results) as it was.
C26_SessionsIndependent ==
    [][ last'.op \in {"step", "end"} =>
          \A s \in DOMAIN obj : s # last'.sid => obj'[s] = obj[s] ]_vars

\* A step call on session 1 returned while the end call of session 2 was
\* suspended in its teardown.
C26_Witness ==
    /\ StepReturned(last) /\ last.sid = 1
    /\ \E c \in Slots : calls[c] # Idle /\ calls[c].op = "end" /\ calls[c].sid = 2
    /\ obj[2] # Gone

\* A step call suspended in slot 1 by this step; it is not a skip.
Begun == calls[1] = Idle /\ calls'[1] # Idle /\ calls'[1].op = "step" /\ ~calls'[1].skip

\* C27: when a call without retry has run step S and S failed, the next call,
\* made with retry, runs S again and not the step after S.
C27_RetryRerunsFailedStep ==
    [][ ( /\ StepReturned(last) /\ ~last.retry /\ ~last.skip /\ last.result = "failed"
          /\ Begun /\ calls'[1].sid = last.sid /\ calls'[1].retry )
        => StepId(calls'[1].part_index, calls'[1].step_index) = last.step_id ]_vars

\* C28: whatever step calls were made, a session's result has at most one
\* PartResult for a part number.
C28_OnePartResultPerPart ==
    \A s \in Live :
        \A i, j \in DOMAIN obj[s].result_parts :
            i # j => obj[s].result_parts[i].part # obj[s].result_parts[j].part

\* The hints of a returned StepExecutionResult, against the scenario.
HintsRight(e) ==
    LET pi == e.step_id[1]
        was_last == e.step_id[2] = scenario[pi].items
        has_next == pi < Len(scenario)
    IN /\ e.is_part_change <=> (was_last /\ ~e.retry)
       /\ e.is_completed <=> (e.is_part_change /\ ~has_next)
       /\ e.is_account_change => e.is_part_change
       /\ e.is_account_change <=> /\ e.is_part_change /\ has_next
                                  /\ scenario[pi + 1].account # scenario[pi].account
       /\ e.next_part = 0 <=> e.is_completed

\* C29: the flags of every StepExecutionResult say what the call did
\* (is_part_change: the last step of its part, without retry; is_completed:
\* of the last part too; is_account_change: a next part with another
\* account; next_part null iff completed), and a next_step that is not null
\* is the step that the next call on the session processes.
C29_HintsTellWhatIsNext ==
    [][ /\ StepReturned(last') => HintsRight(last')
        /\ (StepReturned(last) /\ last.next_step # << >>)
             => /\ (Begun /\ calls'[1].sid = last.sid)
                      => StepId(calls'[1].part_index, calls'[1].step_index) = last.next_step
                /\ (StepReturned(last') /\ last'.sid = last.sid /\ calls[1] = Idle)
                      => last'.step_id = last.next_step ]_vars

\* The last step of a part was run; the next part has another account and
\* its first step is announced.
C29_Witness ==
    /\ StepReturned(last) /\ ~last.retry
    /\ last.is_part_change /\ last.is_account_change /\ ~last.is_completed
    /\ last.next_step = <<last.step_id[1] + 1, 1>>

\* C30: an execute_next_step call that fails because there is no step at the
\* cursor leaves the session (status, cursor, counters, results) as it was.
C30_NoStepChangesNothing ==
    [][ (last'.op = "step" /\ last'.outcome = "no_more") => obj' = obj ]_vars

\* C31: between calls the status of a session is initialized, paused or
\* completed, never running or error; it is initialized only while no step
\* was processed, and completed exactly when the cursor is past the last part.
C31_StatusBetweenCalls ==
    AllIdle =>
        \A s \in registry :
            /\ obj[s].status \in {"initialized", "paused", "completed"}
            /\ obj[s].status = "initialized"
                  => obj[s].executed_steps + obj[s].skipped_steps = 0
            /\ obj[s].status = "completed" <=> obj[s].current_part_index >= Len(scenario)

\* The parts a session on a scenario of Scenarios may start from.
StartParts == UNION { DOMAIN sc : sc \in Scenarios }

\* The number of steps from part p to the end of the scenario.
StepsFrom(p) ==
    LET RECURSIVE Sum(_)
        Sum(i) == IF i > Len(scenario) THEN 0 ELSE scenario[i].items + Sum(i + 1)
    IN Sum(p)

\* C32: a session created from part p and called again and again without
\* retry gets to completed, after as many successful calls as there are
\* steps from part p to the end of the scenario.
C32_DrivenToCompleted ==
    \A p \in StartParts :
        (obj[1].status = "initialized" /\ obj[1].current_part_index = p - 1)
            ~> (obj[1].status = "completed" /\ obj[1].executed_steps = StepsFrom(p))

\* C33: between calls, executed_steps = passed_steps + failed_steps, and
\* passed_steps, failed_steps and skipped_steps are the numbers of the
\* StepResults of that status in the session's ScenarioResult.
C33_CountersMatchResults ==
    AllIdle =>
        \A s \in registry :
            /\ obj[s].executed_steps = obj[s].passed_steps + obj[s].failed_steps
            /\ obj[s].passed_steps = CountSteps(obj[s].result_parts, "passed")
            /\ obj[s].failed_steps = CountSteps(obj[s].result_parts, "failed")
            /\ obj[s].skipped_steps = CountSteps(obj[s].result_parts, "skipped")

\* A session with a failed step and a skipped step recorded.
C33_Witness ==
    /\ AllIdle
    /\ \E s \in registry :
           /\ obj[s].failed_steps = 1 /\ obj[s].skipped_steps = 1
           /\ CountSteps(obj[s].result_parts, "failed") = 1
           /\ CountSteps(obj[s].result_parts, "skipped") = 1


SwitchAborted ==
    /\ runner.pc = "finish" /\ runner.mode = "all" /\ runner.stop_on_error
    /\ ~seen.step.ran /\ seen.switches # << >>
    /\ ~seen.switches[1].ret

\* C36: when run_all with stop_on_error has aborted on a failed account
\* switch, the status it finalizes and saves is failed, and no part of the
\* result it persists to results.json has the status running.
C36_SwitchAbortFails ==
    [][ (SwitchAborted /\ seen'.saved.done) =>
            /\ seen'.saved.current.status = "failed"
            /\ results_json'.content.status = "failed"
            /\ \A i \in DOMAIN results_json'.content.parts :
                   results_json'.content.parts[i].status # "running" ]_vars


\* C37: right after a run has saved its result, a second save_results of the
\* same in-memory result would write exactly what results.json already
\* holds: the same parts in the same order, the same summary and status.
C37_SaveTwiceIsSaveOnce ==
    seen.saved.done =>
        save_results(session, results_json) = results_json.content


\* C38: current_account is the account the cookies of the browser context
\* are of; after a step whose logout action went well current_account is
\* null, and a switch_account to any declared account runs driver calls (the
\* login protocol) instead of returning at once.
C38_AccountMatchesBrowser ==
    /\ session.current_account = session.cookies
    /\ (seen.step.ran /\ seen.step.action_result.action_type = "logout"
           /\ seen.step.action_result.success) =>
          /\ session.current_account = None
          /\ \A key \in Accounts, fate \in LoginFates :
                 SwitchAccount(session, key, fate).calls # << >>


\* C39: when end of a session that records video has saved the video, the
\* results.json that this end wrote holds the path of the saved video in
\* video_path.
C39_SavedVideoInResults ==
    (EndReturned(last) /\ last.teardown.ran /\ last.video_path # None) =>
        /\ results_json.exists
        /\ results_json.content.video_path = last.video_path


\* Two results hold the same parts, with the same steps in the same order.
SameRecords(ps, qs) ==
    /\ Len(ps) = Len(qs)
    /\ \A k \in DOMAIN ps :
           /\ ps[k].part = qs[k].part
           /\ Len(ps[k].steps) = Len(qs[k].steps)
           /\ \A j \in DOMAIN ps[k].steps :
                  ps[k].steps[j].step_id = qs[k].steps[j].step_id

\* A part status that the statuses of the steps account for.
PartStatusOf(p) == IF AnyStep(p, "failed") THEN "failed" ELSE "passed"

\* C34: a session driven from part 1 without retry or skip does what run_all
\* without stop_on_error does. It issues the account switch of a part where
\* run_all issues it, before the first step of the part and nowhere else; and
\* once it has completed, its result holds the PartResults that the result of
\* run_all holds: the same parts, the same step ids in the same order, and
\* part statuses that follow from the step statuses in the same way.
C34_SessionAsRunAll ==
    [][ /\ (calls[1] = Idle /\ calls'[1] # Idle
              /\ calls'[1].pc \in {"clear_cookies", "login"})
           => calls'[1].step_index = 0
        /\ (obj'[1].status = "completed" /\ seen'.saved.done)
           => /\ SameRecords(obj'[1].result_parts, seen'.saved.current.parts)
              /\ \A k \in DOMAIN obj'[1].result_parts :
                     obj'[1].result_parts[k].status
                         = PartStatusOf(obj'[1].result_parts[k])
              /\ \A k \in DOMAIN seen'.saved.current.parts :
                     seen'.saved.current.parts[k].status
                         = PartStatusOf(seen'.saved.current.parts[k]) ]_vars

=============================================================================
